---- MODULE Spec2Model ----
(***************************************************************************)
(* Blandwork: a web-application composition framework (axum + htmx).       *)
(*                                                                         *)
(* The module models                                                       *)
(*   - the Navigator (add_link / set_current / current_link),              *)
(*   - the Triggers accumulator and its JSON serialization,                *)
(*   - the per-request Ctx and PageContext (title, add_trigger, ...),      *)
(*   - the middleware pipeline built by App::build (Context middleware,    *)
(*     Template / Layout middleware, the single Framework middleware),     *)
(*   - the staged application builder App<P, F, T>.                        *)
(*                                                                         *)
(* Specifications:                                                         *)
(*   Spec         the request pipeline of a built application              *)
(*   SpecNav      a Navigator under add_link / set_current                 *)
(*   SpecBuilder  the builder call chain                                   *)
(*   SpecTriggers   a Triggers accumulator and its serialization           *)
(*   SpecLayers     the pipeline with the web layers rearranged            *)
(*   SpecConcurrent two requests in flight at once                         *)
(*   SpecExtension  the pipeline after apply_extension                     *)
(*   SpecLive       the pipeline under a fair scheduler                    *)
(*   SpecNavLive    a Navigator whose set_current is called for ever       *)
(***************************************************************************)
EXTENDS Integers, Sequences, FiniteSets, TLC

VARIABLES
    nav,        \* Navigator.links: Seq(Link)
    navOp,      \* the Navigator operation that returned last
    navPath,    \* the path given to the last set_current
    navBefore,  \* Navigator.links as they were when the last operation began
    app,        \* the App stage at the end of the builder call chain
    ops,        \* the builder operations called so far, in order
    req,        \* the requests in flight, by request id
    trig,       \* Triggers.triggers: Seq(Event)
    trigOut     \* the result of the last serde_json::to_string(&triggers)

navVars == <<nav, navOp, navPath, navBefore>>
appVars == <<app, ops>>
trigVars == <<trig, trigOut>>

vars == <<nav, navOp, navPath, navBefore, app, ops, req, trig, trigOut>>

(***************************************************************************)
(* Bounds                                                                  *)
(***************************************************************************)
MaxLinks == 3
MaxOps == 5
MaxHandlerOps == 2
MaxEvents == 3

(***************************************************************************)
(* Strings.  Routes and paths are Rust Strings; prefix tests and the sort  *)
(* key compare them bytewise, so each string of the model's universe is    *)
(* given by its bytes.                                                     *)
(***************************************************************************)
Strings == {"/", "/a", "/ab", "/ab/x", "/b"}

Bytes(s) ==
    CASE s = "/"     -> <<47>>
      [] s = "/a"    -> <<47, 97>>
      [] s = "/ab"   -> <<47, 97, 98>>
      [] s = "/ab/x" -> <<47, 97, 98, 47, 120>>
      [] s = "/b"    -> <<47, 98>>

\* str::starts_with: p is a prefix of s
starts_with(s, p) ==
    /\ Len(Bytes(p)) <= Len(Bytes(s))
    /\ SubSeq(Bytes(s), 1, Len(Bytes(p))) = Bytes(p)

Min(a, b) == IF a <= b THEN a ELSE b

ReversedOrderMutant(a, b) ==
    LET x == Bytes(b)
        y == Bytes(a)
        n == Min(Len(x), Len(y))
    IN  \/ \E i \in 1..n : /\ x[i] < y[i]
                           /\ \A j \in 1..(i - 1) : x[j] = y[j]
        \/ /\ Len(x) < Len(y)
           /\ \A j \in 1..n : x[j] = y[j]

\* Ord for String: lexicographic on bytes, a proper prefix is smaller
StrLess(a, b) ==
    LET x == Bytes(a)
        y == Bytes(b)
        n == Min(Len(x), Len(y))
    IN  \/ \E i \in 1..n : /\ x[i] < y[i]
                           /\ \A j \in 1..(i - 1) : x[j] = y[j]
        \/ /\ Len(x) < Len(y)
           /\ \A j \in 1..n : x[j] = y[j]

(***************************************************************************)
(* Link and Navigator                                                      *)
(***************************************************************************)
Link(active, title, route) ==
    [active |-> active, title |-> title, label |-> title, route |-> route,
     icon |-> "None", css |-> "None"]

\* Vec::sort_by_key(|link| Reverse(link.route)): a stable sort, descending
RECURSIVE InsertByKey(_, _)
InsertByKey(sorted, x) ==
    IF sorted = <<>> THEN <<x>>
    ELSE IF StrLess(Head(sorted).route, x.route)
         THEN <<x>> \o sorted
         ELSE <<Head(sorted)>> \o InsertByKey(Tail(sorted), x)

RECURSIVE sort_by_key_reverse(_)
sort_by_key_reverse(links) ==
    IF links = <<>> THEN <<>>
    ELSE InsertByKey(sort_by_key_reverse(SubSeq(links, 1, Len(links) - 1)),
                     links[Len(links)])

NoResetMutant(links) == links

\* set_current: links.iter_mut().for_each(|x| x.active = false)
ResetActive(links) == [i \in DOMAIN links |-> [links[i] EXCEPT !.active = FALSE]]

\* the test set_current applies to a link: link.route.starts_with(path)
LinkMatches(link, path) == starts_with(link.route, path)

KeepsUpToHitMutant(links, path) ==
    LET sorted == sort_by_key_reverse(links)
        reset  == ResetActive(sorted)
        hits   == {i \in DOMAIN reset : LinkMatches(reset[i], path)}
    IN  IF hits = {} THEN reset
        ELSE LET first == CHOOSE i \in hits : \A j \in hits : i <= j
             IN  SubSeq([reset EXCEPT ![first].active = TRUE], 1, first)

\* Navigator::set_current
set_current(links, path) ==
    LET sorted == sort_by_key_reverse(links)
        reset  == ResetActive(sorted)
        hits   == {i \in DOMAIN reset : LinkMatches(reset[i], path)}
    IN  IF hits = {} THEN reset
        ELSE LET first == CHOOSE i \in hits : \A j \in hits : i <= j
             IN  [reset EXCEPT ![first].active = TRUE]

\* Navigator::add_link
add_link(links, link) == Append(links, link)

\* Navigator::current_link: Some(first active link) or None
NoLink == [active |-> FALSE, title |-> "None", label |-> "None", route |-> "None",
           icon |-> "None", css |-> "None"]

current_link(links) ==
    LET act == {i \in DOMAIN links : links[i].active}
    IN  IF act = {} THEN NoLink
        ELSE links[CHOOSE i \in act : \A j \in act : i <= j]

(***************************************************************************)
(* SpecNav: a Navigator under any sequence of add_link and set_current     *)
(***************************************************************************)
NavRoutes == {"/a", "/ab", "/b"}
NavPaths == {"/", "/a", "/ab", "/ab/x", "/b"}
NavLinks == {Link(a, r, r) : a \in BOOLEAN, r \in NavRoutes}

NavInit ==
    /\ nav = <<>>
    /\ navOp = "new"
    /\ navPath = "None"
    /\ navBefore = <<>>
    /\ app = "None"
    /\ ops = <<>>
    /\ req = "None"
    /\ trig = <<>>
    /\ trigOut = "None"

NavAddLink ==
    /\ Len(nav) < MaxLinks
    /\ \E l \in NavLinks :
        /\ nav' = add_link(nav, l)
        /\ navOp' = "add_link"
        /\ navBefore' = nav
        /\ UNCHANGED <<navPath, app, ops, req, trigVars>>

NavSetCurrent ==
    \E p \in NavPaths :
        /\ nav' = set_current(nav, p)
        /\ navOp' = "set_current"
        /\ navPath' = p
        /\ navBefore' = nav
        /\ UNCHANGED <<app, ops, req, trigVars>>

NavNext == NavAddLink \/ NavSetCurrent

SpecNav == NavInit /\ [][NavNext]_vars

(***************************************************************************)
(* Navigator claims                                                        *)
(***************************************************************************)
ActiveIdx(links) == {i \in DOMAIN links : links[i].active}

\* C6: after set_current(path) the active link is the first link, in the
\* descending lexical order of routes, whose route is a string-prefix of the
\* path, and no other link is active (for /a, /ab and path /ab/x exactly one
\* link ends active and its route is a prefix of the path).
C6_FirstRoutePrefixOfPathIsActive ==
    navOp = "set_current" =>
        LET hits == {i \in DOMAIN nav : starts_with(navPath, nav[i].route)}
        IN  /\ \A i \in DOMAIN nav :
                nav[i].active <=> (i \in hits /\ \A j \in hits : i <= j)
            /\ \A i, j \in DOMAIN nav :
                i < j => ~StrLess(nav[i].route, nav[j].route)

\* the case of the claim: links /a and /ab, path /ab/x, set_current returned
C6_Case ==
    /\ navOp = "set_current"
    /\ navPath = "/ab/x"
    /\ {nav[i].route : i \in DOMAIN nav} = {"/a", "/ab"}

Feature(name, link, api, supplemental, web) ==
    [name |-> name, link |-> link, api |-> api,
     supplemental |-> supplemental, web |-> web]

FeatA == Feature("A", Link(FALSE, "A", "/a"), <<"/b">>, <<>>, <<"/a">>)
FeatB == Feature("B", Link(FALSE, "B", "/ab"), <<>>, <<"/ab/x">>, <<"/ab">>)
FeatC == Feature("C", NoLink, <<>>, <<>>, <<>>)
FeaturePool == {FeatA, FeatB, FeatC}

\* A layer of a route's middleware stack.  `links` is the link snapshot the
\* layer was constructed with, `v` the value of an Extension layer.
Layer(l, links, v) == [l |-> l, links |-> links, v |-> v]

ContextLayer_new == Layer("context", <<>>, "None")
CoreLayers == Layer("core", <<>>, "None")
Extension(v) == Layer("extension", <<>>, v)

\* Router::new
Router_new == [routes |-> <<>>, fallback |-> [set |-> FALSE, stack |-> <<>>]]

\* a route group of a feature: Router with one route per path, no layers
Routes(paths, kind, feature) ==
    [i \in DOMAIN paths |->
        [path |-> paths[i], kind |-> kind, feature |-> feature, stack |-> <<>>]]

\* Router::layer: wraps every route added so far, and the fallback; the layer
\* added last is the outermost one (first of the stack)
Router_layer(router, layer) ==
    [routes |-> [i \in DOMAIN router.routes |->
                    [router.routes[i] EXCEPT !.stack = <<layer>> \o @]],
     fallback |-> [router.fallback EXCEPT !.stack = <<layer>> \o @]]

\* Router::merge of a feature's route group
Router_merge(router, routes) == [router EXCEPT !.routes = @ \o routes]

FallbackNotSetMutant(router) == router

\* Router::fallback(handler_404)
Router_fallback(router) == [router EXCEPT !.fallback = [set |-> TRUE, stack |-> <<>>]]

LayerRoutes(routes, layer) ==
    [i \in DOMAIN routes |-> [routes[i] EXCEPT !.stack = <<layer>> \o @]]

(***************************************************************************)
(* The staged builder App<P, F, T>.  P and F are the type parameters that  *)
(* decide which impl block, and so which methods, a stage has.             *)
(***************************************************************************)
Variants == {"TemplateService", "LayoutService", "FrameworkMiddleware"}

\* the Template / Layout object: a name and the links registered with it
Template(name) == [name |-> name, links |-> <<>>]

\* Layout::register (VanillaLayout): keeps the feature's link, if any
Template_register(template, feature) ==
    IF feature.link = NoLink THEN template
    ELSE [template EXCEPT !.links = add_link(@, feature.link)]

\* App::new
App_new(variant) ==
    [variant |-> variant, P |-> "NoPool", F |-> "NoFeatures", features |-> <<>>,
     router |-> Router_new, navigator |-> <<>>, template |-> Template("T0"),
     registered |-> <<>>]

\* App<NoPool, NoFeatures, T>::connect
App_connect(a) == [a EXCEPT !.P = "ConnectionPool"]

RegisterReplacesMutant(a, f) ==
    [a EXCEPT !.F = "Features",
              !.features = <<f>>,
              !.registered = Append(@, f)]

\* register_feature / register_feature_default, in every impl block
\* (`registered` is history: every feature registered so far)
App_register_feature(a, f) ==
    [a EXCEPT !.F = "Features",
              !.features = IF a.F = "NoFeatures" THEN <<f>> ELSE Append(@, f),
              !.registered = Append(@, f)]

\* apply_fallback
App_apply_fallback(a) == [a EXCEPT !.router = Router_fallback(@)]

\* apply_extension
App_apply_extension(a, state) == [a EXCEPT !.router = Router_layer(@, Extension(state))]

\* template: the stages that have the method
HasTemplateOp(a) ==
    IF a.variant = "FrameworkMiddleware" THEN TRUE
    ELSE ~(a.P = "NoPool" /\ a.F = "NoFeatures")

\* template: src/src/app.rs resets the navigator and keeps the pool;
\* blandwork/src/app.rs on App<ConnectionPool, NoFeatures, T> returns
\* App<NoPool, NoFeatures, T>
App_template(a, t) ==
    IF a.variant = "FrameworkMiddleware"
    THEN [a EXCEPT !.template = t, !.navigator = <<>>]
    ELSE IF a.P = "ConnectionPool" /\ a.F = "NoFeatures"
         THEN [a EXCEPT !.template = t, !.P = "NoPool"]
         ELSE [a EXCEPT !.template = t]

\* the layers build puts on a web route group: TemplateLayer first, then
\* ContextLayer, so that the Context middleware is the outer one
WebLayersSwappedMutant(routes, template) ==
    LayerRoutes(LayerRoutes(routes, ContextLayer_new),
                Layer("template", template.links, "None"))

WebLayers(routes, template) ==
    LayerRoutes(LayerRoutes(routes, Layer("template", template.links, "None")),
                ContextLayer_new)

\* the layer build puts on an api and on a supplemental route group:
\* ContextLayer only
ApiLayers(routes) == LayerRoutes(routes, ContextLayer_new)

\* blandwork/src/app.rs, build: the loop over the features.  `reg` says
\* whether the branch calls template.register (the NoPool branch does).
RECURSIVE BuildFeatures(_, _, _, _)
BuildFeatures(features, router, template, reg) ==
    IF features = <<>> THEN [router |-> router, template |-> template]
    ELSE LET f  == Head(features)
             t  == IF reg THEN Template_register(template, f) ELSE template
             r1 == Router_merge(router, ApiLayers(Routes(f.api, "api", f.name)))
             r2 == Router_merge(r1,
                        ApiLayers(Routes(f.supplemental, "supplemental", f.name)))
             r3 == Router_merge(r2, WebLayers(Routes(f.web, "web", f.name), t))
         IN  BuildFeatures(Tail(features), r3, t, reg)

\* src/src/app.rs, build, loop 1: the links of all features
RECURSIVE CollectLinks(_, _)
CollectLinks(features, navigator) ==
    IF features = <<>> THEN navigator
    ELSE CollectLinks(Tail(features),
                      IF Head(features).link = NoLink THEN navigator
                      ELSE add_link(navigator, Head(features).link))

\* src/src/app.rs, build, loop 2: api routes bare, web routes in FrameworkLayer
RECURSIVE MergeFramework(_, _, _)
MergeFramework(features, router, navigator) ==
    IF features = <<>> THEN router
    ELSE LET f  == Head(features)
             r1 == Router_merge(router, Routes(f.api, "api", f.name))
             r2 == Router_merge(r1,
                        LayerRoutes(Routes(f.web, "web", f.name),
                                    Layer("framework", navigator, "None")))
         IN  MergeFramework(Tail(features), r2, navigator)

PoolNotAttachedMutant(P, router) == router

\* build, its last layer: Extension(self.pool.clone()) in the impl blocks of
\* App<ConnectionPool, Features, T>, nothing in those of App<NoPool, ..>
AttachPool(P, router) ==
    IF P = "ConnectionPool" THEN Router_layer(router, Extension("Pool")) ELSE router

\* build, in the four impl blocks that have it
App_build(a) ==
    IF a.variant = "FrameworkMiddleware"
    THEN LET navigator == CollectLinks(a.features, a.navigator)
             merged    == MergeFramework(a.features, a.router, navigator)
             core      == Router_layer(merged, CoreLayers)
         IN  [a EXCEPT !.features = <<>>,
                       !.router = AttachPool(a.P, core)]
    ELSE IF a.P = "NoPool"
         THEN LET b == BuildFeatures(a.features, a.router, a.template, TRUE)
              IN  [a EXCEPT !.features = <<>>,
                            !.template = b.template,
                            !.router = AttachPool(a.P, Router_layer(b.router, CoreLayers))]
         ELSE LET b == BuildFeatures(a.features, a.router, a.template, FALSE)
              IN  [a EXCEPT !.router =
                        AttachPool(a.P, Router_layer(b.router, CoreLayers))]

\* a route path routed twice: Router::merge panics on overlapping routes
Overlaps(a) ==
    LET paths(f) == f.api \o f.supplemental \o f.web
        feats    == a.features
        added    == {a.router.routes[i].path : i \in DOMAIN a.router.routes}
    IN  \/ \E i \in DOMAIN feats : \E k \in DOMAIN paths(feats[i]) :
                paths(feats[i])[k] \in added
        \/ \E i, j \in DOMAIN feats :
                /\ i < j
                /\ \E k \in DOMAIN paths(feats[i]) : \E m \in DOMAIN paths(feats[j]) :
                        paths(feats[i])[k] = paths(feats[j])[m]

(***************************************************************************)
(* SpecBuilder: every chain of builder calls the types accept              *)
(***************************************************************************)
ExtensionStates == {"State"}
Templates == {Template("T1")}

BuilderInit ==
    /\ \E v \in Variants : app = App_new(v)
    /\ ops = <<"new">>
    /\ nav = <<>>
    /\ navOp = "new"
    /\ navPath = "None"
    /\ navBefore = <<>>
    /\ req = "None"
    /\ trig = <<>>
    /\ trigOut = "None"

\* a method can be called: the chain is not over and the bound allows it
CanCall == /\ Len(ops) < MaxOps + 1
           /\ ops[Len(ops)] \notin {"run", "panic"}

Call(op, stage) ==
    /\ app' = stage
    /\ ops' = Append(ops, op)
    /\ UNCHANGED <<navVars, req, trigVars>>

\* impl App<NoPool, NoFeatures, T>
Connect ==
    /\ CanCall
    /\ app.P = "NoPool" /\ app.F = "NoFeatures"
    /\ Call("connect", App_connect(app))

\* all four impl blocks
RegisterFeature ==
    /\ CanCall
    /\ \E f \in FeaturePool : Call("register_feature", App_register_feature(app, f))

RegisterFeatureDefault ==
    /\ CanCall
    /\ \E f \in FeaturePool :
            Call("register_feature_default", App_register_feature(app, f))

\* impl App<NoPool, Features, T> and impl App<ConnectionPool, Features, T>
ApplyFallback ==
    /\ CanCall
    /\ app.F = "Features"
    /\ Call("apply_fallback", App_apply_fallback(app))

ApplyExtension ==
    /\ CanCall
    /\ app.F = "Features"
    /\ \E st \in ExtensionStates : Call("apply_extension", App_apply_extension(app, st))

SetTemplate ==
    /\ CanCall
    /\ HasTemplateOp(app)
    /\ \E t \in Templates : Call("template", App_template(app, t))

Build ==
    /\ CanCall
    /\ app.F = "Features"
    /\ ~Overlaps(app)
    /\ Call("build", App_build(app))

\* build on features whose routes overlap: Router::merge panics
BuildPanics ==
    /\ CanCall
    /\ app.F = "Features"
    /\ Overlaps(app)
    /\ Call("panic", app)

\* run: serves until the process ends, so the chain ends here
Run ==
    /\ CanCall
    /\ app.F = "Features"
    /\ Call("run", app)

BuilderNext ==
    \/ Connect
    \/ RegisterFeature
    \/ RegisterFeatureDefault
    \/ ApplyFallback
    \/ ApplyExtension
    \/ SetTemplate
    \/ Build
    \/ BuildPanics
    \/ Run

SpecBuilder == BuilderInit /\ [][BuilderNext]_vars

(***************************************************************************)
(* Builder claims                                                          *)
(***************************************************************************)
RegisterOps == {"register_feature", "register_feature_default"}

\* C9: the builder rejects out-of-order use: run is called only on the stage
\* that build returned, and on the stage that build returned nothing but run
\* is called (in particular no register_feature / register_feature_default).
C9_BuilderRejectsOutOfOrder ==
    \A i \in DOMAIN ops :
        /\ ops[i] = "run" => (i > 1 /\ ops[i - 1] = "build")
        /\ (ops[i] = "build" /\ i < Len(ops)) => ops[i + 1] = "run"

\* the two out-of-order chains the types accept
C9_RunBeforeBuild ==
    /\ ops[Len(ops)] = "run"
    /\ \A i \in DOMAIN ops : ops[i] # "build"

C9_RegisterAfterBuild ==
    \E i \in DOMAIN ops : i > 1 /\ ops[i - 1] = "build" /\ ops[i] \in RegisterOps

(***************************************************************************)
(* JSON values (serde_json::Value), tagged                                 *)
(***************************************************************************)
\* (the value of every tag is a function on strings, so that values of
\* different tags can be compared)
JNull == [t |-> "null", v |-> [null |-> TRUE]]
JStr(text) == [t |-> "str", v |-> [str |-> text]]
JObj(map) == [t |-> "obj", v |-> map]
JArr(seq) == [t |-> "arr", v |-> [items |-> seq]]

Ok(v) == [ok |-> TRUE, v |-> v]
Err == [ok |-> FALSE, v |-> JNull]

(***************************************************************************)
(* Event and Triggers                                                      *)
(***************************************************************************)
\* Option<Box<dyn Serializable>>: None, or the payload, given by the JSON
\* text that Serializable::serialize (serde_json::to_string) produces for it
NoData == [t |-> "none", v |-> [none |-> TRUE]]

\* Event::new / Event::empty
Event_new(key, data) == [key |-> key, data |-> data]
Event_empty(key) == [key |-> key, data |-> NoData]

\* impl Serialize for Event: no payload is null; a payload is parsed back
\* into a HashMap<String, Value> (an error unless it is a JSON object) and
\* written out entry by entry as one map
NoPayloadAsEmptyMapMutant(e) ==
    IF e.data = NoData THEN Ok(JObj([data |-> JNull]))
    ELSE IF e.data.t # "obj" THEN Err
         ELSE Ok(e.data)

Event_serialize(e) ==
    IF e.data = NoData THEN Ok(JNull)
    ELSE IF e.data.t # "obj" THEN Err
         ELSE LET data_map == e.data.v
              IN  Ok(JObj([k \in DOMAIN data_map |-> data_map[k]]))

\* Triggers::add
Triggers_add(triggers, event) == Append(triggers, event)

NewestFirstMutant(triggers, key) ==
    LET Has(e) == e.key = key
        g == SelectSeq(triggers, Has)
    IN  [i \in DOMAIN g |-> g[Len(g) + 1 - i]]

SelectKey(triggers, key) ==
    LET Has(e) == e.key = key IN SelectSeq(triggers, Has)

\* Triggers::group_triggers: the events of each key, in insertion order
OverwriteGroupMutant(triggers) ==
    [k \in {triggers[i].key : i \in DOMAIN triggers} |->
        <<triggers[CHOOSE i \in DOMAIN triggers :
                    /\ triggers[i].key = k
                    /\ \A j \in DOMAIN triggers : triggers[j].key = k => j <= i]>>]

group_triggers(triggers) ==
    [k \in {triggers[i].key : i \in DOMAIN triggers} |-> SelectKey(triggers, k)]

\* the count test of impl Serialize for Triggers
AlwaysArrayMutant(count) == count >= 1

AsArray(count) == count > 1

\* impl Serialize for Triggers: a map from key to the array of its events when
\* there are several, to its only event otherwise
Triggers_serialize(triggers) ==
    LET groups == group_triggers(triggers)
        entry(g) ==
            IF AsArray(Len(g))
            THEN JArr([i \in DOMAIN g |-> Event_serialize(g[i]).v])
            ELSE Event_serialize(g[1]).v
    IN  IF \E i \in DOMAIN triggers : ~Event_serialize(triggers[i]).ok
        THEN Err
        ELSE Ok(JObj([k \in DOMAIN groups |-> entry(groups[k])]))

(***************************************************************************)
(* Ctx and PageContext (blandwork/src/context.rs)                          *)
(***************************************************************************)
ConfigTitle == <<"Blandwork">>

NoCtx == [title |-> <<>>, path |-> "None", hx |-> FALSE, boosted |-> FALSE,
          triggers |-> <<>>, links |-> <<>>]

LeftoverTriggersMutant(links, path, hx, boosted) ==
    [title |-> ConfigTitle, path |-> path, hx |-> hx, boosted |-> boosted,
     triggers |-> <<Event_empty("K2")>>, links |-> links]

\* Ctx::build: title from the configuration, no triggers yet
Ctx_build(links, path, hx, boosted) ==
    [title |-> ConfigTitle, path |-> path, hx |-> hx, boosted |-> boosted,
     triggers |-> <<>>, links |-> links]

\* PageContext::is_htmx / is_boosted: the header is present
is_htmx(ctx) == ctx.hx

BoostedIgnoredMutant(ctx) == FALSE

\* PageContext::is_boosted: HX-Boosted is among the request's headers
is_boosted(ctx) == ctx.boosted

\* PageContext::add_trigger / empty_trigger
add_trigger(ctx, key, data) ==
    [ctx EXCEPT !.triggers = Triggers_add(@, Event_new(key, data))]
empty_trigger(ctx, key) ==
    [ctx EXCEPT !.triggers = Triggers_add(@, Event_empty(key))]

\* format!("{} | {}", title, section) / format!("{}", title)
FormatTitle(title, section) ==
    IF Len(section) > 0 THEN title \o <<" | ">> \o section ELSE title

\* PageContext::title: the formatted title is stored back into the Ctx and
\* announced with a titleUpdate event
PageContext_title(ctx, section) ==
    LET title == FormatTitle(ctx.title, section)
    IN  [ctx |-> add_trigger([ctx EXCEPT !.title = title], "titleUpdate",
                             JObj([title |-> JStr(title)])),
         title |-> title]

\* PageContext::triggers: to_string(self).unwrap().parse().unwrap()
PageContext_triggers(ctx) == Triggers_serialize(ctx.triggers)

(***************************************************************************)
(* Context of src/src/context.rs (the single Framework middleware)         *)
(***************************************************************************)
\* FrameworkMiddleware::new_context: Context::build, then set_current(path)
new_context(navigator, path, hx, boosted) ==
    [title |-> <<>>, path |-> path, hx |-> hx, boosted |-> boosted,
     triggers |-> <<>>, links |-> set_current(navigator, path)]

\* Context::title: the title of the current link, or ""
Context_title(ctx) ==
    IF current_link(ctx.links) = NoLink THEN <<>>
    ELSE <<current_link(ctx.links).title>>

\* serde: Option<&Link> as JSON
LinkJson(link) ==
    IF link = NoLink THEN JNull
    ELSE JObj([active |-> link.active, title |-> link.title, label |-> link.label,
               route |-> link.route, icon |-> link.icon, css |-> link.css])

(***************************************************************************)
(* Bodies, responses and pages                                             *)
(***************************************************************************)
\* a body: text, bytes that are not UTF-8, or a stream that fails when read
TextBody(text) == [kind |-> "text", text |-> text]
InvalidUtf8Body == [kind |-> "invalid_utf8", text |-> <<>>]
FailingBody == [kind |-> "stream_error", text |-> <<>>]

NoHeaders == [h \in {} |-> JNull]
HtmlHeaders == [h \in {"content-type"} |-> JStr("text/html")]
PlainHeaders == [h \in {"content-type"} |-> JStr("text/plain")]

OnlyNewHeaderMutant(headers, name, value) == [h \in {name} |-> value]

\* HeaderMap::extend with one header: the value replaces an earlier one
ExtendHeader(headers, name, value) ==
    [h \in DOMAIN headers \cup {name} |-> IF h = name THEN value ELSE headers[h]]

Response(status, headers, body) ==
    [result |-> "ok", status |-> status, headers |-> headers, body |-> body]
NoResponse == [result |-> "none", status |-> 0, headers |-> NoHeaders,
               body |-> TextBody(<<>>)]
ErrResult == [NoResponse EXCEPT !.result = "err"]

\* Link::render
RenderLink(link) ==
    <<"<a href=", link.route,
      IF link.active THEN "bg-gray-400" ELSE "bg-gray-600", link.label, "</a>">>

\* Navigator::render
RECURSIVE RenderLinks(_)
RenderLinks(links) ==
    IF links = <<>> THEN <<>>
    ELSE RenderLink(Head(links)) \o RenderLinks(Tail(links))

PageWithoutBodyMutant(title, links, body) ==
    <<"<!DOCTYPE html>", "<html>", "<head>", "<title>">> \o title
    \o <<"</title>", "</head>", "<body>", "<div#navigator>">> \o RenderLinks(links)
    \o <<"</div>", "<div#content>", "</div>", "</body>", "<script>", "</html>">>

\* VanillaTemplate::page: head with the title, the navigator, the body in
\* the content div, verbatim (PreEscaped)
VanillaTemplate_page(title, links, body) ==
    <<"<!DOCTYPE html>", "<html>", "<head>", "<title>">> \o title
    \o <<"</title>", "</head>", "<body>", "<div#navigator>">> \o RenderLinks(links)
    \o <<"</div>", "<div#content>">> \o body
    \o <<"</div>", "</body>", "<script>", "</html>">>

\* the shell template rendered by TemplateAccessor::render with
\* context!(title, links, content)
ShellTemplate_render(title, links, content) ==
    <<"<shell>", "<title>">> \o title \o <<"</title>">> \o RenderLinks(links)
    \o <<"<main>">> \o content \o <<"</main>", "</shell>">>

\* text is a contiguous part of page
Contains(page, text) ==
    \E i \in 0..(Len(page) - Len(text)) : SubSeq(page, i + 1, i + Len(text)) = text

(***************************************************************************)
(* Requests.  A request goes down the middleware stack of the route it     *)
(* matches (pc = "call", depth = the layer called next), reaches the       *)
(* handler (pc = "handler"), and its response comes back up through the    *)
(* same layers (pc = "resp", depth = the layer that resumes next).         *)
(***************************************************************************)
AllReqs == {1, 2}
SpecReqs == {1}

ReqPaths == {"/", "/a", "/ab", "/ab/x", "/b"}
Keys == {"K1", "K2"}
ObjectPayload == JObj([name |-> JStr(<<"X">>)])
ScalarPayload == JStr(<<"text">>)
Payloads == {ObjectPayload, ScalarPayload}
Sections == {<<>>, <<"S">>}
Frag1 == <<"<b>", "More content", "</b>">>
Frag2 == <<"<div>", "Hi!", "</div>">>

HandlerResponses ==
    {Response(200, HtmlHeaders, TextBody(Frag1)),
     Response(200, ExtendHeader(HtmlHeaders, "x-feature", JStr("1")), TextBody(Frag2)),
     Response(404, HtmlHeaders, TextBody(Frag1)),
     Response(200, HtmlHeaders, InvalidUtf8Body),
     Response(200, HtmlHeaders, FailingBody)}

NoRoute == [path |-> "None", kind |-> "None", feature |-> "None", stack |-> <<>>]

IdleReq ==
    [pc |-> "idle", path |-> "None", hx |-> FALSE, boosted |-> FALSE,
     route |-> NoRoute, depth |-> 0, ext |-> {}, ctx |-> NoCtx, lock |-> "free",
     resp |-> NoResponse, handled |-> NoResponse,
     handlerEvents |-> <<>>, titleLog |-> <<>>, nops |-> 0, log |-> <<>>,
     renderFailed |-> FALSE]

\* routing: the route registered for the path, or the fallback
MatchRoute(router, path) ==
    LET hits == {i \in DOMAIN router.routes : router.routes[i].path = path}
    IN  IF hits # {} THEN router.routes[CHOOSE i \in hits : TRUE]
        ELSE [path |-> path, kind |-> "fallback", feature |-> "None",
              stack |-> router.fallback.stack]

Down(stack, depth) == IF depth > Len(stack) THEN "handler" ELSE "call"
Up(depth) == IF depth = 0 THEN "done" ELSE "resp"

Set(r, q) == /\ req' = [req EXCEPT ![r] = q]
             /\ UNCHANGED <<navVars, appVars, trigVars>>

Calling(r, l) ==
    /\ req[r].pc = "call"
    /\ req[r].route.stack[req[r].depth].l = l

Resuming(r, l) ==
    /\ req[r].pc = "resp"
    /\ req[r].route.stack[req[r].depth].l = l

\* one more layer entered / one more layer left
Enter(q, step) ==
    [q EXCEPT !.depth = @ + 1, !.pc = Down(q.route.stack, q.depth + 1),
              !.log = Append(@, step)]
Leave(q, step) ==
    [q EXCEPT !.depth = @ - 1, !.pc = Up(q.depth - 1), !.log = Append(@, step)]
Panic(q, step) == [q EXCEPT !.pc = "panic", !.log = Append(@, step)]

\* a request arrives and is routed
Receive(r) ==
    /\ req[r].pc = "idle"
    /\ \E path \in ReqPaths, hx \in BOOLEAN, boosted \in BOOLEAN :
        LET route == MatchRoute(app.router, path)
        IN  Set(r, [req[r] EXCEPT !.pc = Down(route.stack, 1), !.path = path,
                                  !.hx = hx, !.boosted = boosted, !.route = route,
                                  !.depth = 1])

\* the ServiceBuilder layers (trace, CORS, compression, timeout) pass the
\* request on
CoreCall(r) ==
    /\ Calling(r, "core")
    /\ Set(r, Enter(req[r], "core_call"))

\* Extension(value): the value is put into the request's extensions
ExtensionCall(r) ==
    /\ Calling(r, "extension")
    /\ Set(r, Enter([req[r] EXCEPT
                        !.ext = @ \cup {req[r].route.stack[req[r].depth].v}],
                    "extension_call"))

\* ContextService::call, up to the call of the inner service
ContextCall(r) ==
    /\ Calling(r, "context")
    /\ LET q == req[r]
           layer == q.route.stack[q.depth]
       IN  Set(r, Enter([q EXCEPT
                            !.ctx = Ctx_build(layer.links, q.path, q.hx, q.boosted),
                            !.ext = @ \cup {"ContextAccessor"}],
                        "context_call"))

HandleNotNeededMutant(ext) == TRUE

\* extensions.get::<ContextAccessor>(): Some exactly when the handle is there
ContextHandle(ext) == "ContextAccessor" \in ext

\* TemplateService::call / LayoutService::call, up to the call of the inner
\* service: the loader (layout) goes into the extensions, and the Context
\* handle is taken out of them with unwrap()
TemplateCall(r) ==
    /\ Calling(r, "template")
    /\ LET q == req[r]
           own == IF app.variant = "TemplateService" THEN "TemplateAccessor"
                  ELSE "Layout"
       IN  IF ContextHandle(q.ext)
           THEN Set(r, Enter([q EXCEPT !.ext = @ \cup {own}], "template_call"))
           ELSE Set(r, Panic([q EXCEPT !.ext = @ \cup {own}], "template_call"))

\* FrameworkMiddleware::call, up to the call of the inner service
FrameworkCall(r) ==
    /\ Calling(r, "framework")
    /\ LET q == req[r]
           layer == q.route.stack[q.depth]
       IN  Set(r, Enter([q EXCEPT
                            !.ctx = new_context(layer.links, q.path, q.hx, q.boosted)],
                        "framework_call"))

(***************************************************************************)
(* The handler of the matched route.  A handler of a route behind the      *)
(* Context middleware takes the Context handle from the extensions, locks  *)
(* it, and may add events and compute the title before it returns.         *)
(***************************************************************************)
InHandler(r) ==
    /\ req[r].pc = "handler"
    /\ req[r].route.kind # "fallback"

UsesContext(r) ==
    /\ InHandler(r)
    /\ "ContextAccessor" \in req[r].ext
    /\ req[r].lock \in {"free", "handler"}
    /\ req[r].nops < MaxHandlerOps

\* ctx.add_trigger(key, data)
HandlerAddTrigger(r) ==
    /\ UsesContext(r)
    /\ \E key \in Keys, data \in Payloads :
        Set(r, [req[r] EXCEPT
                    !.ctx = add_trigger(@, key, data),
                    !.handlerEvents = Append(@, Event_new(key, data)),
                    !.lock = "handler", !.nops = @ + 1])

\* ctx.empty_trigger(key)
HandlerEmptyTrigger(r) ==
    /\ UsesContext(r)
    /\ \E key \in Keys :
        Set(r, [req[r] EXCEPT
                    !.ctx = empty_trigger(@, key),
                    !.handlerEvents = Append(@, Event_empty(key)),
                    !.lock = "handler", !.nops = @ + 1])

\* ctx.title(section)
HandlerTitle(r) ==
    /\ UsesContext(r)
    /\ \E section \in Sections :
        LET t == PageContext_title(req[r].ctx, section)
        IN  Set(r, [req[r] EXCEPT
                        !.ctx = t.ctx,
                        !.handlerEvents =
                            Append(@, t.ctx.triggers[Len(t.ctx.triggers)]),
                        !.titleLog = Append(@, [section |-> section, title |-> t.title]),
                        !.lock = "handler", !.nops = @ + 1])

Returned(q, response) ==
    [q EXCEPT !.resp = response, !.handled = response, !.lock = "free",
              !.depth = Len(q.route.stack), !.pc = Up(Len(q.route.stack)),
              !.log = Append(@, "handler")]

\* the handler returns its response; the lock guard is dropped
HandlerReturn(r) ==
    /\ InHandler(r)
    /\ \E response \in HandlerResponses : Set(r, Returned(req[r], response))

\* the inner service fails with an error
HandlerFails(r) ==
    /\ InHandler(r)
    /\ Set(r, Returned(req[r], ErrResult))

\* handler_404, the fallback of apply_fallback; without it the router's own 404
FallbackReturn(r) ==
    /\ req[r].pc = "handler"
    /\ req[r].route.kind = "fallback"
    /\ Set(r, Returned(req[r],
                IF app.router.fallback.set
                THEN Response(404, PlainHeaders, TextBody(<<"nothing to see here">>))
                ELSE Response(404, NoHeaders, TextBody(<<>>))))

(***************************************************************************)
(* The response on its way up                                              *)
(***************************************************************************)
CoreResp(r) ==
    /\ Resuming(r, "core")
    /\ Set(r, Leave(req[r], "core_resp"))

ExtensionResp(r) ==
    /\ Resuming(r, "extension")
    /\ Set(r, Leave(req[r], "extension_resp"))

ErrorSwallowedMutant(response) == FALSE

\* inner.await?: the error of the inner service is returned at once
InnerFailed(response) == response.result = "err"

\* (StatusCode::INTERNAL_SERVER_ERROR, "").into_response()
InternalServerError == Response(500, PlainHeaders, TextBody(<<>>))

\* Response::new("FAILED!".into())
Failed == Response(200, NoHeaders, TextBody(<<"FAILED!">>))

SkipsOnHtmxMutant(ctx) == is_htmx(ctx)

\* the test of the Template / Layout / Framework middleware that returns
\* the inner response as it is
ReturnsUnwrapped(ctx) == is_boosted(ctx)

AttachesAlwaysMutant(ctx) == TRUE

\* the test of the Context middleware that attaches the trigger header
AttachesTriggers(ctx) == is_boosted(ctx)

\* TemplateService::call, after the inner response
TemplateResp(r) ==
    /\ Resuming(r, "template")
    /\ app.variant = "TemplateService"
    /\ LET q == req[r]
           t == PageContext_title(q.ctx, <<>>)
       IN  IF InnerFailed(q.resp) THEN Set(r, Leave(q, "template_resp"))
           ELSE /\ q.lock = "free"
                /\ IF ReturnsUnwrapped(q.ctx) THEN Set(r, Leave(q, "template_resp"))
                   ELSE IF q.resp.body.kind = "stream_error"
                   THEN Set(r, Leave([q EXCEPT !.resp = InternalServerError],
                                     "template_resp"))
                   ELSE IF q.resp.body.kind = "invalid_utf8"
                   THEN Set(r, Panic(q, "template_resp"))
                   ELSE \E rendered \in BOOLEAN :
                        Set(r, Leave([q EXCEPT
                            !.ctx = t.ctx,
                            !.titleLog = Append(@, [section |-> <<>>, title |-> t.title]),
                            !.renderFailed = ~rendered,
                            !.resp = IF rendered
                                     THEN Response(200, HtmlHeaders,
                                            TextBody(ShellTemplate_render(
                                                t.title, t.ctx.links, q.resp.body.text)))
                                     ELSE InternalServerError],
                            "template_resp"))

\* LayoutService::call, after the inner response
LayoutResp(r) ==
    /\ Resuming(r, "template")
    /\ app.variant = "LayoutService"
    /\ LET q == req[r]
           layer == q.route.stack[q.depth]
       IN  IF InnerFailed(q.resp) THEN Set(r, Leave(q, "template_resp"))
           ELSE /\ q.lock = "free"
                /\ IF ReturnsUnwrapped(q.ctx) THEN Set(r, Leave(q, "template_resp"))
                   ELSE IF q.resp.body.kind = "stream_error"
                   THEN Set(r, Leave([q EXCEPT !.resp = Failed], "template_resp"))
                   ELSE IF q.resp.body.kind = "invalid_utf8"
                   THEN Set(r, Panic(q, "template_resp"))
                   ELSE Set(r, Leave([q EXCEPT !.resp =
                            Response(200, HtmlHeaders,
                                TextBody(VanillaTemplate_page(
                                    q.ctx.title, layer.links, q.resp.body.text)))],
                            "template_resp"))

\* FrameworkMiddleware::call, after the inner response
FrameworkResp(r) ==
    /\ Resuming(r, "framework")
    /\ LET q == req[r]
       IN  IF InnerFailed(q.resp) THEN Set(r, Leave(q, "framework_resp"))
           ELSE IF ReturnsUnwrapped(q.ctx)
           THEN Set(r, Leave([q EXCEPT !.resp.headers =
                        ExtendHeader(@, "hx-trigger",
                            JObj([navigator |-> LinkJson(current_link(q.ctx.links))]))],
                        "framework_resp"))
           ELSE IF q.resp.body.kind = "stream_error"
           THEN Set(r, Leave([q EXCEPT !.resp = Failed], "framework_resp"))
           ELSE IF q.resp.body.kind = "invalid_utf8"
           THEN Set(r, Panic(q, "framework_resp"))
           ELSE Set(r, Leave([q EXCEPT !.resp =
                    Response(200, HtmlHeaders,
                        TextBody(VanillaTemplate_page(
                            Context_title(q.ctx), q.ctx.links, q.resp.body.text)))],
                    "framework_resp"))

\* ContextService::call, after the inner response
ContextResp(r) ==
    /\ Resuming(r, "context")
    /\ LET q == req[r]
           value == PageContext_triggers(q.ctx)
       IN  IF InnerFailed(q.resp) THEN Set(r, Leave(q, "context_resp"))
           ELSE /\ q.lock = "free"
                /\ IF ~AttachesTriggers(q.ctx) THEN Set(r, Leave(q, "context_resp"))
                   ELSE IF ~value.ok THEN Set(r, Panic(q, "context_resp"))
                   ELSE Set(r, Leave([q EXCEPT !.resp.headers =
                                ExtendHeader(@, "hx-trigger", value.v)],
                                "context_resp"))

(***************************************************************************)
(* Spec: requests to an application built from FeatA and FeatB             *)
(***************************************************************************)
BuiltApp(variant, pool) ==
    LET new == App_new(variant)
        connected == IF pool THEN App_connect(new) ELSE new
    IN  App_build(App_apply_fallback(
            App_register_feature(App_register_feature(connected, FeatA), FeatB)))

Init ==
    /\ \E v \in Variants, pool \in BOOLEAN :
        /\ app = BuiltApp(v, pool)
        /\ ops = <<"new">> \o (IF pool THEN <<"connect">> ELSE <<>>)
                 \o <<"register_feature", "register_feature", "apply_fallback", "build">>
    /\ req = [r \in AllReqs |-> IdleReq]
    /\ nav = <<>>
    /\ navOp = "new"
    /\ navPath = "None"
    /\ navBefore = <<>>
    /\ trig = <<>>
    /\ trigOut = "None"

Step(r) ==
    \/ Receive(r)
    \/ CoreCall(r)
    \/ ExtensionCall(r)
    \/ ContextCall(r)
    \/ TemplateCall(r)
    \/ FrameworkCall(r)
    \/ HandlerAddTrigger(r)
    \/ HandlerEmptyTrigger(r)
    \/ HandlerTitle(r)
    \/ HandlerReturn(r)
    \/ HandlerFails(r)
    \/ FallbackReturn(r)
    \/ TemplateResp(r)
    \/ LayoutResp(r)
    \/ FrameworkResp(r)
    \/ ContextResp(r)
    \/ CoreResp(r)
    \/ ExtensionResp(r)

Next == \E r \in SpecReqs : Step(r)

Spec == Init /\ [][Next]_vars

(***************************************************************************)
(* Pipeline claims                                                         *)
(***************************************************************************)
Requests == {req[r] : r \in SpecReqs}

Logged(log, step) == \E i \in DOMAIN log : log[i] = step
Pos(log, step) == CHOOSE i \in DOMAIN log : log[i] = step
TriggerHeader(q) == "hx-trigger" \in DOMAIN q.resp.headers

\* the handler of a web route returned a fragment: a body that can be read
\* to its end and is UTF-8 text
ReturnedFragment(q) ==
    /\ q.route.kind = "web"
    /\ q.handled.result = "ok"
    /\ q.handled.body.kind = "text"

LayerOf(q, l) ==
    q.route.stack[CHOOSE i \in DOMAIN q.route.stack : q.route.stack[i].l = l]

\* the Template's full-page output for the request
FullPage(q) ==
    CASE app.variant = "TemplateService" ->
            ShellTemplate_render(q.ctx.title, q.ctx.links, q.handled.body.text)
      [] app.variant = "LayoutService" ->
            VanillaTemplate_page(q.ctx.title, LayerOf(q, "template").links,
                                 q.handled.body.text)
      [] app.variant = "FrameworkMiddleware" ->
            VanillaTemplate_page(Context_title(q.ctx), q.ctx.links, q.handled.body.text)

\* C1: on a web route, a request with neither HX-Request nor HX-Boosted whose
\* handler returned a fragment (and whose Template produced output) gets a
\* response whose body is the Template's full-page output for that fragment,
\* and the fragment is a contiguous part of that body (the pages of
\* VanillaTemplate; the shell of TemplateService is a template file).
C1_PlainRequestGetsFullPage ==
    \A q \in Requests :
        (q.pc = "done" /\ ReturnedFragment(q) /\ ~q.hx /\ ~q.boosted /\ ~q.renderFailed)
        => /\ q.resp.result = "ok"
           /\ q.resp.body.kind = "text"
           /\ q.resp.body.text = FullPage(q)
           /\ app.variant # "TemplateService"
                => /\ Contains(q.resp.body.text, q.handled.body.text)
                   /\ Len(q.resp.body.text) > Len(q.handled.body.text)

C1_Witness ==
    \E q \in Requests :
        /\ q.pc = "done" /\ ReturnedFragment(q) /\ ~q.hx /\ ~q.boosted
        /\ q.handled.body.text = Frag2
        /\ Contains(q.resp.body.text, Frag2)
        /\ app.variant = "LayoutService"

\* C2 as stated: on a web route, a request with HX-Request gets the
\* handler's fragment as the whole response body, with or without HX-Boosted.
C2_HxRequestGetsRawFragment ==
    \A q \in Requests :
        (q.pc = "done" /\ ReturnedFragment(q) /\ q.hx)
        => q.resp.body = q.handled.body

\* C2: on a web route, a request with HX-Boosted gets the handler's body as
\* the whole response body, status included, with or without HX-Request.
C2_BoostedGetsRawFragment ==
    \A q \in Requests :
        (q.pc = "done" /\ q.route.kind = "web" /\ q.handled.result = "ok" /\ q.boosted)
        => /\ q.resp.result = "ok"
           /\ q.resp.body = q.handled.body
           /\ q.resp.status = q.handled.status

C2_Witness ==
    \E q \in Requests :
        /\ q.pc = "done" /\ ReturnedFragment(q) /\ q.boosted /\ ~q.hx
        /\ q.handled.body.text = Frag1
        /\ q.resp.body = q.handled.body

\* C3: a response to a request without HX-Boosted never carries an
\* HX-Trigger header, whatever the handler added to the Context.
C3_NoTriggerHeaderUnlessBoosted ==
    \A q \in Requests :
        (~q.boosted /\ q.resp.result = "ok") => ~TriggerHeader(q)

C3_Witness ==
    \E q \in Requests :
        /\ q.pc = "done" /\ ~q.boosted /\ q.hx
        /\ Logged(q.log, "context_resp")
        /\ Len(q.handlerEvents) = MaxHandlerOps
        /\ q.resp.result = "ok"
        /\ ~TriggerHeader(q)

\* C4 as stated: once the Context middleware has taken back the response of
\* the inner service to a request with HX-Boosted, the response goes out with
\* an HX-Trigger header that is the serialization of exactly the events the
\* handler added.
C4_BoostedCarriesHandlersEvents ==
    \A q \in Requests :
        (q.boosted /\ Logged(q.log, "context_call") /\ q.handled.result = "ok"
            /\ q.lock = "free" /\ q.pc \in {"done", "panic"})
        => /\ q.pc = "done"
           /\ TriggerHeader(q)
           /\ Triggers_serialize(q.handlerEvents).ok
           /\ q.resp.headers["hx-trigger"] = Triggers_serialize(q.handlerEvents).v

Before(log, a, b) == Logged(log, a) /\ Logged(log, b) => Pos(log, a) < Pos(log, b)

\* C5: on every web route that build wraps in the Context and Template
\* middleware, the Context middleware is entered before the Template
\* middleware and left after it: the Template middleware never fails to find
\* the Context handle in the extensions, and a trigger header is only on a
\* response the Template middleware has already returned.
C5_ContextAroundTemplate ==
    \A q \in Requests :
        (q.route.kind = "web" /\ app.variant # "FrameworkMiddleware")
        => /\ q.pc \in {"call", "handler", "resp", "done", "panic"}
                => /\ Len(q.route.stack) >= 2
                   /\ \E i, j \in DOMAIN q.route.stack :
                        /\ i < j
                        /\ q.route.stack[i].l = "context"
                        /\ q.route.stack[j].l = "template"
           /\ Logged(q.log, "template_call")
                => /\ Logged(q.log, "context_call")
                   /\ "ContextAccessor" \in q.ext
                   /\ ~(q.pc = "panic" /\ q.log[Len(q.log)] = "template_call")
           /\ Before(q.log, "context_call", "template_call")
           /\ Before(q.log, "template_resp", "context_resp")
           /\ Logged(q.log, "context_resp") => Logged(q.log, "template_resp")
           /\ TriggerHeader(q) => Logged(q.log, "template_resp")

C5_Witness ==
    \E q \in Requests :
        /\ q.pc = "done" /\ q.route.kind = "web" /\ q.boosted
        /\ app.variant = "TemplateService"
        /\ Logged(q.log, "template_call") /\ Logged(q.log, "context_resp")
        /\ Pos(q.log, "context_call") < Pos(q.log, "template_call")
        /\ Pos(q.log, "template_resp") < Pos(q.log, "context_resp")
        /\ TriggerHeader(q)

\* C8 as stated: two calls of PageContext::title in one request, one right
\* after the other and with the same section, return the same string.
C8_TitleTwiceSameString ==
    \A q \in Requests :
        \A i \in DOMAIN q.titleLog :
            (i > 1 /\ q.titleLog[i].section = q.titleLog[i - 1].section)
            => q.titleLog[i].title = q.titleLog[i - 1].title

\* C10: a Triggers accumulator that holds exactly one event under a key, with
\* an object payload, serializes (when it serializes at all) to a map whose
\* entry for the key is the payload object itself, not an array; and when that
\* event is the only one, to the map of that one entry.
C10_SingleEventIsFlattened ==
    \A q \in Requests :
        LET triggers == q.ctx.triggers
            out == Triggers_serialize(triggers)
        IN  /\ \A i \in DOMAIN triggers :
                (/\ triggers[i].data.t = "obj"
                 /\ Len(SelectKey(triggers, triggers[i].key)) = 1
                 /\ out.ok)
                => /\ out.v.t = "obj"
                   /\ triggers[i].key \in DOMAIN out.v.v
                   /\ out.v.v[triggers[i].key] = triggers[i].data
            /\ (Len(triggers) = 1 /\ triggers[1].data.t = "obj")
                => out = Ok(JObj([k \in {triggers[1].key} |-> triggers[1].data]))

C10_Witness ==
    \E q \in Requests :
        /\ q.ctx # NoCtx
        /\ q.ctx.triggers = <<Event_new("K1", ObjectPayload)>>
        /\ Triggers_serialize(q.ctx.triggers) = Ok(JObj([K1 |-> ObjectPayload]))
        /\ q.pc = "done" /\ q.resp.result = "ok" /\ TriggerHeader(q)
        /\ q.resp.headers["hx-trigger"] = JObj([K1 |-> ObjectPayload])

(***************************************************************************)
(* SpecTriggers: a Triggers accumulator under any sequence of add, and its *)
(* serialization with serde_json::to_string                                *)
(***************************************************************************)
OtherPayload == JObj([name |-> JStr(<<"Y">>)])
TrigPayloads == Payloads \cup {OtherPayload}
NotSerialized == [ok |-> FALSE, v |-> [t |-> "none", v |-> [none |-> TRUE]]]

TrigInit ==
    /\ trig = <<>>
    /\ trigOut = NotSerialized
    /\ nav = <<>>
    /\ navOp = "new"
    /\ navPath = "None"
    /\ navBefore = <<>>
    /\ app = "None"
    /\ ops = <<>>
    /\ req = "None"

\* triggers.add(Event::new(key, data))
TrigAddNew ==
    /\ Len(trig) < MaxEvents
    /\ \E key \in Keys, data \in TrigPayloads :
        trig' = Triggers_add(trig, Event_new(key, data))
    /\ trigOut' = NotSerialized
    /\ UNCHANGED <<navVars, appVars, req>>

\* triggers.add(Event::empty(key))
TrigAddEmpty ==
    /\ Len(trig) < MaxEvents
    /\ \E key \in Keys : trig' = Triggers_add(trig, Event_empty(key))
    /\ trigOut' = NotSerialized
    /\ UNCHANGED <<navVars, appVars, req>>

\* serde_json::to_string(&triggers)
TrigSerialize ==
    /\ trigOut = NotSerialized
    /\ trigOut' = Triggers_serialize(trig)
    /\ UNCHANGED <<navVars, appVars, req, trig>>

TrigNext == TrigAddNew \/ TrigAddEmpty \/ TrigSerialize

SpecTriggers == TrigInit /\ [][TrigNext]_vars

(***************************************************************************)
(* Triggers claims                                                         *)
(***************************************************************************)
\* the serialization has run and has written a map
Serialized == trigOut # NotSerialized /\ trigOut.ok

\* the positions of the events added under key k, and the j-th of them
Under(k) == {i \in DOMAIN trig : trig[i].key = k}
Nth(k, j) ==
    CHOOSE i \in Under(k) : Cardinality({h \in Under(k) : h <= i}) = j

\* what one event is written as: null without a payload, else its payload
Written(e) == IF e.data = NoData THEN JNull ELSE e.data

\* C11: a Triggers accumulator holding exactly one event under key K, with
\* no payload, serializes to a map whose entry for K is null; when it is the
\* only event the map is {K: null}.
C11_SingleEmptyEventIsNull ==
    /\ Serialized =>
        \A k \in Keys :
            (Cardinality(Under(k)) = 1 /\ trig[Nth(k, 1)].data = NoData)
            => /\ trigOut.v.t = "obj"
               /\ k \in DOMAIN trigOut.v.v
               /\ trigOut.v.v[k] = JNull
    /\ (trigOut # NotSerialized /\ Len(trig) = 1 /\ trig[1].data = NoData)
        => trigOut = Ok(JObj([k \in {trig[1].key} |-> JNull]))

C11_Witness ==
    /\ trig = <<Event_empty("K1")>>
    /\ trigOut = Ok(JObj([K1 |-> JNull]))

\* C12: when n >= 2 events were added under one key K, the serialized entry
\* for K is an array of length n whose i-th element is the i-th event added
\* under K, null standing for an event without payload.
C12_RepeatedKeyIsArrayInOrder ==
    Serialized =>
        \A k \in Keys :
            LET n == Cardinality(Under(k))
            IN  n >= 2
                => /\ k \in DOMAIN trigOut.v.v
                   /\ trigOut.v.v[k].t = "arr"
                   /\ Len(trigOut.v.v[k].v.items) = n
                   /\ \A j \in 1..n :
                        trigOut.v.v[k].v.items[j] = Written(trig[Nth(k, j)])

C12_Witness ==
    /\ trig = <<Event_empty("K1"), Event_new("K1", ObjectPayload)>>
    /\ trigOut = Ok(JObj([K1 |-> JArr(<<JNull, ObjectPayload>>)]))

\* the number of events an entry of the serialized map stands for
EntrySize(entry) == IF entry.t = "arr" THEN Len(entry.v.items) ELSE 1

RECURSIVE TotalSize(_, _)
TotalSize(map, keys) ==
    IF keys = {} THEN 0
    ELSE LET k == CHOOSE x \in keys : TRUE
         IN  EntrySize(map[k]) + TotalSize(map, keys \ {k})

\* C13: for any sequence of events with interleaved keys, the serialized map
\* has one entry for every key that occurs and for no other, the entry is a
\* single value exactly when one event has the key, and the entries together
\* stand for as many events as were added.
C13_GroupsByKeyLosingNothing ==
    Serialized =>
        /\ trigOut.v.t = "obj"
        /\ DOMAIN trigOut.v.v = {trig[i].key : i \in DOMAIN trig}
        /\ \A k \in DOMAIN trigOut.v.v :
            (trigOut.v.v[k].t # "arr") <=> (Cardinality(Under(k)) = 1)
        /\ TotalSize(trigOut.v.v, DOMAIN trigOut.v.v) = Len(trig)

C13_Witness ==
    /\ trig = <<Event_new("K1", ObjectPayload), Event_empty("K2"),
                Event_new("K1", OtherPayload)>>
    /\ trigOut = Ok(JObj([K1 |-> JArr(<<ObjectPayload, OtherPayload>>),
                          K2 |-> JNull]))

(***************************************************************************)
(* Claims on what build makes of the features                              *)
(***************************************************************************)
HasLayer(stack, l) == \E i \in DOMAIN stack : stack[i].l = l

\* a route of an api or a supplemental group
ApiRoute(route) == route.kind \in {"api", "supplemental"}

\* C14 as stated: after build, every route of a feature's api group and supplemental
\* group is inside the Context middleware and not inside the Template
\* middleware: its handler finds the Context handle, a boosted request gets
\* the trigger header, and a request that is not boosted gets the handler's
\* response as it is.
C14_ApiRoutesContextOnly ==
    /\ \A i \in DOMAIN app.router.routes :
        ApiRoute(app.router.routes[i])
        => /\ HasLayer(app.router.routes[i].stack, "context")
           /\ ~HasLayer(app.router.routes[i].stack, "template")
    /\ \A q \in Requests :
        ApiRoute(q.route)
        => /\ ~Logged(q.log, "template_call")
           /\ q.pc = "handler" => "ContextAccessor" \in q.ext
           /\ (q.pc = "done" /\ q.handled.result = "ok")
                => /\ q.boosted => TriggerHeader(q)
                   /\ q.resp.body = q.handled.body
                   /\ q.resp.status = q.handled.status
                   /\ ~q.boosted => q.resp = q.handled

\* the links of the features that have one, in the order of the features
RECURSIVE LinksOf(_)
LinksOf(features) ==
    IF features = <<>> THEN <<>>
    ELSE (IF Head(features).link = NoLink THEN <<>> ELSE <<Head(features).link>>)
         \o LinksOf(Tail(features))

\* the chain has just ended in its first build, of the blandwork builder
FirstBuildReturned ==
    /\ app.variant # "FrameworkMiddleware"
    /\ ops[Len(ops)] = "build"
    /\ \A i \in 1..(Len(ops) - 1) : ops[i] # "build"

\* C15 as stated: when build returns, the navigation registry (the links the
\* Layout keeps) holds the Link of every registered feature that has one, in
\* registration order, with a connection pool and without one.
C15_BuildExtractsLinks ==
    FirstBuildReturned => app.template.links = LinksOf(app.registered)

\* C16 as stated: the stage build returns has an empty feature list, with a
\* connection pool and without one.
C16_BuildEmptiesFeatures ==
    ops[Len(ops)] = "build" => app.features = <<>>

\* C17: when the stage that build is called on holds a connection pool,
\* every feature route is inside an Extension layer holding the pool and the
\* handler of every feature route finds the pool in the request's
\* extensions; when the stage holds no pool, no route and no handler has it.
C17_PoolAttachedIffConnected ==
    LET pool == app.P = "ConnectionPool"
        HasPool(stack) ==
            \E i \in DOMAIN stack : stack[i] = Extension("Pool")
    IN  /\ \A i \in DOMAIN app.router.routes :
                HasPool(app.router.routes[i].stack) <=> pool
        /\ \A q \in Requests :
            (q.pc = "handler" /\ q.route.kind # "fallback")
            => (("Pool" \in q.ext) <=> pool)

C17_Witness ==
    \E q \in Requests :
        /\ app.P = "ConnectionPool"
        /\ Logged(ops, "connect")
        /\ q.pc = "handler" /\ q.route.kind = "api"
        /\ "Pool" \in q.ext

(***************************************************************************)
(* Claims on the responses that page-wrapping does not wrap                *)
(***************************************************************************)
\* the page-wrapping middleware of the route has handled the inner response
Wrapped(q) == Logged(q.log, "template_resp") \/ Logged(q.log, "framework_resp")

\* C18 as stated: when the handler of a web route returns a non-success
\* status, the response that leaves the Template and Context middleware has
\* that status and that body, boosted or not.
C18_ErrorStatusPropagated ==
    \A q \in Requests :
        (/\ q.pc = "done" /\ ReturnedFragment(q) /\ q.handled.status >= 400
         /\ Logged(q.log, "context_resp"))
        => /\ q.resp.status = q.handled.status
           /\ q.resp.body = q.handled.body

\* C19 as stated: if reading the inner body to its end fails while a
\* non-boosted web request is wrapped, the response is a 500 with an empty
\* body, not a success status with a fixed text.
C19_BufferFailureIs500 ==
    \A q \in Requests :
        (/\ q.route.kind = "web" /\ ~q.boosted /\ Wrapped(q)
         /\ q.handled.result = "ok" /\ q.handled.body = FailingBody)
        => /\ q.pc # "panic"
           /\ q.resp.status = 500
           /\ q.resp.body = TextBody(<<>>)

\* C20 as stated: if the inner body of a non-boosted web request is not
\* valid UTF-8, page-wrapping answers with a fixed 500 with an empty body;
\* the request still gets a response.
C20_InvalidUtf8Is500 ==
    \A q \in Requests :
        (/\ q.route.kind = "web" /\ ~q.boosted /\ Logged(q.log, "template_resp")
         /\ q.handled.result = "ok" /\ q.handled.body = InvalidUtf8Body)
        => /\ q.pc # "panic"
           /\ q.resp.status = 500
           /\ q.resp.body = TextBody(<<>>)

(***************************************************************************)
(* Claims on what the middleware leaves alone                              *)
(***************************************************************************)
\* C21: if the inner service fails with an error, every middleware above it
\* returns that error as it is, boosted or not: nothing is wrapped, no
\* trigger header is attached, nothing panics.
C21_ErrorPropagatesUnchanged ==
    \A q \in Requests :
        q.handled.result = "err"
        => /\ q.resp = q.handled
           /\ ~TriggerHeader(q)
           /\ q.pc # "panic"

C21_Witness ==
    \E q \in Requests :
        /\ q.pc = "done" /\ q.handled.result = "err" /\ q.boosted
        /\ app.variant = "TemplateService"
        /\ Len(q.handlerEvents) > 0
        /\ Logged(q.log, "template_resp") /\ Logged(q.log, "context_resp")
        /\ q.resp = ErrResult

\* the step in which the Context middleware of request r returns a response
ContextReturns(r) ==
    /\ Resuming(r, "context")
    /\ req'[r].log = Append(req[r].log, "context_resp")
    /\ req'[r].pc # "panic"

OtherHeaders(response) == DOMAIN response.headers \ {"hx-trigger"}

\* C22: the response the Context middleware returns differs from the inner
\* response in the trigger header at most: same status, same body, same
\* other headers with the same values; without HX-Boosted it is the inner
\* response itself.
C22_ContextTouchesTriggerHeaderOnly ==
    [][\A r \in SpecReqs :
        ContextReturns(r)
        => /\ req'[r].resp.result = req[r].resp.result
           /\ req'[r].resp.status = req[r].resp.status
           /\ req'[r].resp.body = req[r].resp.body
           /\ OtherHeaders(req'[r].resp) = OtherHeaders(req[r].resp)
           /\ \A h \in OtherHeaders(req[r].resp) :
                req'[r].resp.headers[h] = req[r].resp.headers[h]
           /\ ~req[r].boosted => req'[r].resp = req[r].resp]_vars

C22_Witness ==
    \E q \in Requests :
        /\ q.pc = "done" /\ q.boosted /\ q.route.kind = "api"
        /\ Logged(q.log, "context_resp")
        /\ "x-feature" \in DOMAIN q.handled.headers
        /\ TriggerHeader(q)
        /\ q.resp.headers["x-feature"] = q.handled.headers["x-feature"]
        /\ q.resp.body = q.handled.body

(***************************************************************************)
(* SpecLayers: requests to an application whose web routes carry the       *)
(* public TemplateLayer and ContextLayer as build puts them, in the other  *)
(* order, or the TemplateLayer alone                                       *)
(***************************************************************************)
Arrangements == {"built", "swapped", "template_only"}

Rearranged(stack, arrangement) ==
    LET NotContext(layer) == layer.l # "context"
        Other(layer) ==
            IF layer.l = "context"
            THEN stack[CHOOSE i \in DOMAIN stack : stack[i].l = "template"]
            ELSE IF layer.l = "template"
            THEN stack[CHOOSE i \in DOMAIN stack : stack[i].l = "context"]
            ELSE layer
    IN  CASE arrangement = "built" -> stack
          [] arrangement = "template_only" -> SelectSeq(stack, NotContext)
          [] arrangement = "swapped" -> [i \in DOMAIN stack |-> Other(stack[i])]

Relayered(a, arrangement) ==
    [a EXCEPT !.router.routes =
        [i \in DOMAIN @ |->
            IF @[i].kind = "web" /\ a.variant # "FrameworkMiddleware"
            THEN [@[i] EXCEPT !.stack = Rearranged(@, arrangement)]
            ELSE @[i]]]

LayersInit ==
    /\ \E v \in Variants, arrangement \in Arrangements :
        app = Relayered(BuiltApp(v, TRUE), arrangement)
    /\ ops = <<"new", "connect", "register_feature", "register_feature",
               "apply_fallback", "build">>
    /\ req = [r \in AllReqs |-> IdleReq]
    /\ nav = <<>>
    /\ navOp = "new"
    /\ navPath = "None"
    /\ navBefore = <<>>
    /\ trig = <<>>
    /\ trigOut = "None"

SpecLayers == LayersInit /\ [][Next]_vars

\* C23: when the Template middleware is reached by a request that has no
\* Context handle in its extensions, the request fails at once: the inner
\* handler is never called and no response, wrapped or not, is returned.
C23_TemplateWithoutContextFailsFast ==
    \A q \in Requests :
        (Logged(q.log, "template_call") /\ "ContextAccessor" \notin q.ext)
        => /\ q.pc = "panic"
           /\ ~Logged(q.log, "handler")
           /\ q.handled = NoResponse
           /\ q.resp = NoResponse

C23_Witness ==
    \E q \in Requests :
        /\ app.variant = "TemplateService"
        /\ q.route.kind = "web"
        /\ ~HasLayer(q.route.stack, "context")
        /\ q.pc = "panic"
        /\ q.log[Len(q.log)] = "template_call"
        /\ "ContextAccessor" \notin q.ext

\* C24: after apply_fallback and build, a request whose path matches no
\* feature route gets 404 with the fixed plain-text body, boosted or not; the
\* body is not wrapped in the page and no trigger header is attached.
C24_UnmatchedGetsPlain404 ==
    \A q \in Requests :
        (/\ Logged(ops, "apply_fallback") /\ Logged(ops, "build")
         /\ q.pc = "done" /\ q.route.kind = "fallback")
        => /\ q.resp = Response(404, PlainHeaders, TextBody(<<"nothing to see here">>))
           /\ ~Logged(q.log, "template_resp")
           /\ ~Logged(q.log, "framework_resp")

C24_Witness ==
    \E q \in Requests :
        /\ Logged(ops, "apply_fallback")
        /\ q.pc = "done" /\ q.route.kind = "fallback" /\ q.path = "/"
        /\ q.boosted
        /\ q.resp.status = 404
        /\ q.resp.body = TextBody(<<"nothing to see here">>)

(***************************************************************************)
(* SpecConcurrent: two requests in flight at once.  Each call of a         *)
(* middleware is a task of its own; the steps of the two requests          *)
(* interleave freely.  Request r adds events under its own key.            *)
(***************************************************************************)
MaxConcurrentOps == 1

KeyOf(r) == IF r = 1 THEN "K1" ELSE "K2"
ConcurrentPaths == {"/", "/a", "/ab"}
OwnEvents(r) == {Event_new(KeyOf(r), ObjectPayload), Event_empty(KeyOf(r))}

\* the inputs of request r in this specification
Narrow(r, q) ==
    /\ q.path \in ConcurrentPaths \cup {"None"}
    /\ q.hx = q.boosted
    /\ q.nops <= MaxConcurrentOps
    /\ \A i \in DOMAIN q.handlerEvents :
            \/ q.handlerEvents[i] \in OwnEvents(r)
            \/ q.handlerEvents[i].key = "titleUpdate"
    /\ \A i \in DOMAIN q.titleLog : q.titleLog[i].section = <<>>
    /\ \/ q.route.kind = "fallback"
       \/ q.handled \in {NoResponse, ErrResult,
                         Response(200, HtmlHeaders, TextBody(Frag1))}
    /\ ~q.renderFailed

ConcurrentStep(r) == Step(r) /\ Narrow(r, req'[r])

ConcurrentNext == \E r \in AllReqs : ConcurrentStep(r)

SpecConcurrent == Init /\ [][ConcurrentNext]_vars

\* the links held by the middleware that builds the Context of the request
ContextLinks(q) ==
    IF app.variant = "FrameworkMiddleware"
    THEN set_current(LayerOf(q, "framework").links, q.path)
    ELSE LayerOf(q, "context").links

\* the links held by the middleware that renders the page of the request
PageLinks(q) ==
    IF app.variant = "FrameworkMiddleware"
    THEN LayerOf(q, "framework").links
    ELSE LayerOf(q, "template").links

HasContext(q) == Logged(q.log, "context_call") \/ Logged(q.log, "framework_call")

\* the Context of a request that has reached its handler and has not used it
\* yet is empty of events and holds the middleware's links, resolved for the
\* request's own path where the middleware resolves them
StartsFresh(q) ==
    (q.pc \in {"call", "handler"} /\ HasContext(q) /\ q.nops = 0)
    => /\ q.ctx.triggers = <<>>
       /\ q.ctx.links = ContextLinks(q)

\* the trigger header of request r holds the request's own events (blandwork)
\* or its own current link (src/src), and nothing under another request's key
OwnHeader(r) ==
    LET q == req[r]
    IN  (q.pc = "done" /\ q.resp.result = "ok" /\ TriggerHeader(q))
        => /\ q.resp.headers["hx-trigger"] =
                IF app.variant = "FrameworkMiddleware"
                THEN JObj([navigator |-> LinkJson(current_link(ContextLinks(q)))])
                ELSE Triggers_serialize(q.handlerEvents).v
           /\ \A o \in AllReqs \ {r} :
                KeyOf(o) \notin DOMAIN q.resp.headers["hx-trigger"].v

\* a link drawn as active in the page of a request is active in the
\* resolution of the middleware's links for the request's own path
OwnPage(q) ==
    (q.pc = "done" /\ q.resp.result = "ok" /\ Wrapped(q) /\ ~q.boosted
     /\ q.resp.body.kind = "text")
    => \A i \in DOMAIN PageLinks(q) :
            LET shown == [PageLinks(q)[i] EXCEPT !.active = TRUE]
            IN  Contains(q.resp.body.text, RenderLink(shown))
                => \E j \in DOMAIN set_current(PageLinks(q), q.path) :
                        set_current(PageLinks(q), q.path)[j] = shown

Isolated ==
    \A r \in AllReqs : StartsFresh(req[r]) /\ OwnHeader(r) /\ OwnPage(req[r])

\* C25: under any interleaving of two concurrent requests, each request's
\* Context starts with no events and a copy of the middleware's links; the
\* events and active flags of one request never show in the trigger header or
\* the page of the other; and no step of request handling changes the
\* application (the routers and the links its middleware hold).
C25_RequestsIsolated == []Isolated /\ [][app' = app]_vars

\* request 1 is answered with its own events in the trigger header while
\* request 2, on another path, holds events of its own in its Context
C25_Witness ==
    /\ req[1].pc = "done" /\ req[1].boosted /\ req[1].resp.result = "ok"
    /\ TriggerHeader(req[1])
    /\ Logged(req[1].log, "context_resp")
    /\ req[1].handlerEvents # <<>>
    /\ req[2].pc \in {"handler", "resp"}
    /\ req[2].path # req[1].path
    /\ req[2].ctx.triggers # <<>>

(***************************************************************************)
(* Title claims                                                            *)
(***************************************************************************)
\* the title the page of the request was rendered with
PageTitle(q) ==
    IF app.variant = "FrameworkMiddleware" THEN Context_title(q.ctx) ELSE q.ctx.title

\* the link the page of the request shows as the current one
PageCurrentLink(q) ==
    CASE app.variant = "FrameworkMiddleware" -> current_link(q.ctx.links)
      [] app.variant = "LayoutService" -> current_link(LayerOf(q, "template").links)
      [] app.variant = "TemplateService" -> current_link(q.ctx.links)

RenderedPage(q) ==
    /\ q.pc = "done" /\ Wrapped(q) /\ ReturnedFragment(q)
    /\ ~q.boosted /\ ~q.renderFailed

\* C26 as stated: the title of the page of a request is
\* "{app_title} | {current_link.title}" when a link is active, and exactly
\* app_title when none is.
C26_TitleIsAppTitleAndLink ==
    \A q \in Requests :
        RenderedPage(q)
        => LET current == PageCurrentLink(q)
               expected == IF current = NoLink THEN ConfigTitle
                           ELSE ConfigTitle \o <<" | ", current.title>>
           IN  /\ PageTitle(q) = expected
               /\ Contains(q.resp.body.text, <<"<title>">> \o expected \o <<"</title>">>)

(***************************************************************************)
(* Order of the features                                                   *)
(***************************************************************************)
\* the routes of the features, feature by feature in the order of the list,
\* the route groups of one feature in the order build merges them
RECURSIVE RoutesInOrder(_)
RoutesInOrder(features) ==
    IF features = <<>> THEN <<>>
    ELSE LET f == Head(features)
             paths == f.api
                      \o (IF app.variant = "FrameworkMiddleware" THEN <<>>
                          ELSE f.supplemental)
                      \o f.web
         IN  [i \in DOMAIN paths |-> [path |-> paths[i], feature |-> f.name]]
             \o RoutesInOrder(Tail(features))

MergedRoutes ==
    [i \in DOMAIN app.router.routes |->
        [path |-> app.router.routes[i].path, feature |-> app.router.routes[i].feature]]

NoBuildYet == \A i \in DOMAIN ops : ops[i] # "build"

\* C27: in every chain of builder calls, until build is called the pending
\* list is exactly the features registered so far, in the order of their
\* registration, whatever apply_fallback, apply_extension, template or connect
\* calls lie between; and when the first build returns, the merged routes are
\* those of the registered features, feature by feature in that order, none
\* missing and none twice.
C27_FeaturesKeptInOrder ==
    /\ NoBuildYet => app.features = app.registered
    /\ (ops[Len(ops)] = "build" /\ \A i \in 1..(Len(ops) - 1) : ops[i] # "build")
       => MergedRoutes = RoutesInOrder(app.registered)

\* two features with routes registered around another builder call, then built
C27_Witness ==
    /\ ops[Len(ops)] = "build"
    /\ \E i, j, k \in DOMAIN ops :
            /\ i < j /\ j < k
            /\ ops[i] \in RegisterOps /\ ops[k] \in RegisterOps
            /\ ops[j] \in {"apply_fallback", "apply_extension", "template"}
    /\ Len(app.registered) = 2
    /\ app.registered[1] # app.registered[2]
    /\ Len(MergedRoutes) >= 3

(***************************************************************************)
(* The Template middleware on boosted and non-boosted requests             *)
(***************************************************************************)
\* C28: when the Template middleware resumes on a boosted request, it hands
\* on the inner response as it is: status, headers and body are those the
\* handler produced (or the handler's error), the body is not read (a body
\* that is not UTF-8 or fails when read makes no difference) and the Template
\* is not called (no title is computed, the Context is left alone).
C28_BoostedPassesThroughTemplate ==
    [][\A r \in SpecReqs :
        (Resuming(r, "template") /\ req[r].boosted /\ req'[r] # req[r])
        => /\ req'[r].pc # "panic"
           /\ req'[r].resp = req[r].handled
           /\ req'[r].ctx = req[r].ctx
           /\ req'[r].titleLog = req[r].titleLog
           /\ ~req'[r].renderFailed]_vars

\* the Template middleware has just handed on the response of a boosted
\* request whose handler set a header of its own
C28_Witness ==
    \E q \in Requests :
        /\ q.boosted /\ q.route.kind = "web"
        /\ q.log # <<>> /\ q.log[Len(q.log)] = "template_resp"
        /\ q.handled.result = "ok"
        /\ "x-feature" \in DOMAIN q.handled.headers
        /\ q.resp = q.handled

\* C29: on a web route the page template is applied to every request that
\* does not carry HX-Boosted, a request that carries HX-Request alone
\* included: the Template middleware never hands on the handler's response
\* as it is, and a fragment the Template can render comes back as the full
\* page.
C29_NonBoostedAlwaysWrapped ==
    \A q \in Requests :
        (q.pc = "done" /\ q.route.kind = "web" /\ ~q.boosted /\ q.handled.result = "ok")
        => /\ Wrapped(q)
           /\ q.resp # q.handled
           /\ (ReturnedFragment(q) /\ ~q.renderFailed)
              => q.resp.body = TextBody(FullPage(q))

\* a request with HX-Request and without HX-Boosted got the full page
C29_Witness ==
    \E q \in Requests :
        /\ q.pc = "done" /\ q.route.kind = "web" /\ q.hx /\ ~q.boosted
        /\ ReturnedFragment(q) /\ ~q.renderFailed
        /\ q.resp.body = TextBody(FullPage(q))
        /\ Contains(q.resp.body.text, q.handled.body.text)

(***************************************************************************)
(* SpecExtension: requests to an application whose builder chain called    *)
(* apply_extension before build                                            *)
(***************************************************************************)
ExtendedApp(variant, pool, state) ==
    LET new == App_new(variant)
        connected == IF pool THEN App_connect(new) ELSE new
    IN  App_build(App_apply_extension(App_apply_fallback(
            App_register_feature(App_register_feature(connected, FeatA), FeatB)),
            state))

ExtensionInit ==
    /\ \E v \in Variants, pool \in BOOLEAN, state \in ExtensionStates :
        /\ app = ExtendedApp(v, pool, state)
        /\ ops = <<"new">> \o (IF pool THEN <<"connect">> ELSE <<>>)
                 \o <<"register_feature", "register_feature", "apply_fallback",
                      "apply_extension", "build">>
    /\ req = [r \in AllReqs |-> IdleReq]
    /\ nav = <<>>
    /\ navOp = "new"
    /\ navPath = "None"
    /\ navBefore = <<>>
    /\ trig = <<>>
    /\ trigOut = "None"

SpecExtension == ExtensionInit /\ [][Next]_vars

\* C30 as stated: a value attached with apply_extension before build is in
\* the extensions of the request when the handler of a feature route that
\* build merged afterwards is entered.
C30_ExtensionSeenByFeatureHandlers ==
    \A q \in Requests :
        (/\ Logged(ops, "apply_extension")
         /\ q.pc = "handler" /\ q.route.kind # "fallback")
        => \E state \in ExtensionStates : state \in q.ext

(***************************************************************************)
(* Navigator: prefixes, exact matches, and what set_current leaves alone   *)
(***************************************************************************)
\* SpecNavLive: the Navigator of a server that keeps serving.  Every request
\* to a web route resolves the links for its path (new_context calls
\* set_current), so set_current is called again and again.
SpecNavLive == NavInit /\ [][NavNext]_vars /\ WF_vars(NavSetCurrent)

RouteLen(link) == Len(Bytes(link.route))

\* set_current has returned with a link active whose route is a prefix of
\* the path and shorter than the route of another link that is a prefix of
\* the path too
ShorterPrefixActive ==
    /\ navOp = "set_current"
    /\ \E i \in ActiveIdx(nav), j \in DOMAIN nav :
            /\ starts_with(navPath, nav[i].route)
            /\ starts_with(navPath, nav[j].route)
            /\ RouteLen(nav[i]) < RouteLen(nav[j])

\* C31 as stated: some link set and some path lead set_current to mark active
\* a link whose route is a shorter prefix of the path than another link's
\* route that is also a prefix of the path.
C31_ShorterPrefixCanBeActive == <>ShorterPrefixActive

\* C31: no link set and no path do: when set_current has returned, of two
\* links whose routes are prefixes of the path the one with the longer route
\* comes first (the descending order on bytes puts a string before its proper
\* prefixes), and an active link whose route is a prefix of the path is never
\* shorter than another link's route that is a prefix of the path.
C31_LongerPrefixComesFirst ==
    navOp = "set_current" =>
        /\ \A i, j \in DOMAIN nav :
                (/\ i < j
                 /\ starts_with(navPath, nav[i].route)
                 /\ starts_with(navPath, nav[j].route))
                => RouteLen(nav[i]) >= RouteLen(nav[j])
        /\ ~ShorterPrefixActive

\* links /a and /ab, added in this order, and path /ab: both routes are
\* prefixes of the path and the link made active is the longer one
C31_Witness ==
    /\ navOp = "set_current"
    /\ navPath = "/ab"
    /\ Len(navBefore) >= 2
    /\ navBefore[1].route = "/a" /\ navBefore[2].route = "/ab"
    /\ \E i \in ActiveIdx(nav) : nav[i].route = "/ab"
    /\ \A i \in ActiveIdx(nav) : nav[i].route = "/ab"

\* C32 as stated: when the route of some link equals the path, the link that
\* set_current(path) leaves active has that route, also when the route of
\* another link has the path as a proper prefix.
C32_ExactRouteIsActive ==
    (navOp = "set_current" /\ \E i \in DOMAIN nav : nav[i].route = navPath)
    => /\ ActiveIdx(nav) # {}
       /\ \A i \in ActiveIdx(nav) : nav[i].route = navPath

\* a link without its active flag: title, label, route, icon and css
Unflagged(link) == [link EXCEPT !.active = FALSE]

\* how many links of the list are the given one, flags aside
Copies(links, link) ==
    Cardinality({i \in DOMAIN links : Unflagged(links[i]) = Unflagged(link)})

\* C38: set_current changes only the order of the links and their active
\* flags: every link, compared on title, label, route, icon and css, is there
\* as many times after the call as before it; and a second set_current with
\* the same path leaves the order and the flags as the first one left them.
C38_SetCurrentPermutesAndIsIdempotent ==
    navOp = "set_current" =>
        /\ Len(nav) = Len(navBefore)
        /\ \A l \in NavLinks : Copies(nav, l) = Copies(navBefore, l)
        /\ set_current(nav, navPath) = nav

\* set_current has reordered three links, two of them with the same route,
\* and moved the active flag
C38_Witness ==
    /\ navOp = "set_current"
    /\ Len(nav) = 3
    /\ \E i, j \in DOMAIN navBefore : i < j /\ navBefore[i].route = navBefore[j].route
    /\ \E i \in DOMAIN nav : nav[i].route # navBefore[i].route
    /\ ActiveIdx(nav) # {}
    /\ ActiveIdx(nav) # ActiveIdx(navBefore)

(***************************************************************************)
(* SpecLive: the request pipeline under a fair scheduler.  The runtime     *)
(* polls every task that can make progress, so a request whose next step   *)
(* is enabled takes it.                                                    *)
(***************************************************************************)
SpecLive == Init /\ [][Next]_vars /\ WF_vars(Next)

\* the request passes the Context middleware, the Template middleware and a
\* handler
ThroughContextAndTemplate(q) ==
    /\ q.route.kind = "web"
    /\ \E i \in DOMAIN q.route.stack : q.route.stack[i].l = "context"
    /\ \E i \in DOMAIN q.route.stack : q.route.stack[i].l = "template"

\* C33 as stated: every request through the Context middleware, the Template
\* middleware and a handler that has released the Context lock when it
\* returns eventually produces a response (or the handler's error).
C33_EveryRequestAnswered ==
    \A r \in SpecReqs :
        (req[r].pc # "idle" /\ ThroughContextAndTemplate(req[r]))
        ~> (req[r].pc = "done" /\ req[r].lock = "free")

(***************************************************************************)
(* The page and what the handler and the builder gave it                   *)
(***************************************************************************)
\* the links the page of the request is rendered with: those of the
\* request's Context (TemplateService, FrameworkMiddleware) or those of the
\* Layout held by the route's layer (LayoutService)
LinksOnPage(q) ==
    IF app.variant = "LayoutService" THEN LayerOf(q, "template").links
    ELSE q.ctx.links

\* C34 as stated: the page of a web route of any feature is rendered with
\* the links of all registered features, those registered after that feature
\* included.
C34_PageShowsLinksOfAllFeatures ==
    \A q \in Requests :
        RenderedPage(q)
        => \A i \in DOMAIN LinksOf(app.registered) :
                \E j \in DOMAIN LinksOnPage(q) :
                    Unflagged(LinksOnPage(q)[j]) = Unflagged(LinksOf(app.registered)[i])

\* C35 as stated: when the Template middleware wraps the fragment of a
\* non-boosted web request, every header the handler set on its response is
\* on the wrapped response with the same value.
C35_WrappedKeepsHandlerHeaders ==
    \A q \in Requests :
        RenderedPage(q)
        => \A h \in DOMAIN q.handled.headers :
                /\ h \in DOMAIN q.resp.headers
                /\ q.resp.headers[h] = q.handled.headers[h]

(***************************************************************************)
(* The builder's template operation                                        *)
(***************************************************************************)
\* C36 as stated: the template operation changes only the template: the
\* stage it returns holds the pool (or none), the pending features and the
\* router of the stage it was called on.
C36_TemplateChangesOnlyTemplate ==
    [][ops' = Append(ops, "template")
       => /\ app'.P = app.P
          /\ app'.F = app.F
          /\ app'.features = app.features
          /\ app'.router = app.router]_vars

(***************************************************************************)
(* Serializing the triggers of a boosted request                           *)
(***************************************************************************)
\* C37 as stated: for every sequence of events the handler added with
\* add_trigger and empty_trigger, a payload that serializes to a JSON scalar
\* included, the Context middleware builds the trigger header of a boosted
\* request: it does not panic, and the response goes on with the header.
C37_TriggerHeaderAlwaysBuilt ==
    \A q \in Requests :
        (/\ q.boosted /\ q.handled.result = "ok"
         /\ Logged(q.log, "context_resp"))
        => /\ q.pc # "panic"
           /\ TriggerHeader(q)
====
